---------------------------- MODULE Spec2Model ----------------------------
(***************************************************************************)
(* Lead-generation frontend: the generate-leads route handler (sourcing,   *)
(* scoring, persistence, response) and the two status-polling clients      *)
(* (LeadGenerationForm, ChatInterface).                                    *)
(***************************************************************************)
EXTENDS Integers, Sequences, FiniteSets, TLC

(* ----------------------------- bounds --------------------------------- *)

\* Largest number of records a provider dataset returns in the model.
MaxLeads == 2

\* Lead-generation sessions a polling client starts in one behaviour.
MaxSessions == 2

\* Status requests of a client that can be in flight at the same time.
MaxInFlight == 2

\* Last second of the wall clock (ChatInterface stamps its entries with it).
MaxTime == 1

\* Longest status list ChatInterface holds in the model.
MaxUpdates == 2

\* Webhook requests handled in one behaviour (they may overlap).
MaxHooks == 2

\* Template 'use' requests handled in one behaviour (they may overlap).
MaxUses == 3

\* ICP configuration requests handled in one behaviour (one after the other).
MaxIcpRequests == 3

(* ------------------------- program constants -------------------------- *)

\* const maxAttempts = 30 (both poll loops)
maxAttempts == 30

\* Give up after 10 retries (LeadGenerationForm, session not found)
MaxNotFoundRetries == 10

(* ------------------------------ state --------------------------------- *)

VARIABLES
    \* process environment (module-level constants of the route)
    apifyConfigured,    \* APIFY_API_TOKENS.length > 0
    googleConfigured,   \* GOOGLE_API_KEY && GOOGLE_CSE_ID
    openaiConfigured,   \* process.env.OPENAI_API_KEY
    \* the request body of POST generate-leads
    method, jobTitles, locations,
    \* locals of POST / searchApolloLeads / searchGoogleLeads
    pc,                 \* the await the handler is suspended at
    leads,              \* let leads = []
    attempts,           \* let attempts = 0
    i,                  \* loop index of the scoring loop (0-based)
    \* the response of the handler
    outcome,            \* "none" | "success" | "error"  (body.status)
    httpStatus,         \* 0 (none) | 200 | 400 | 500
    count,              \* data.count of the success body
    responseFields,     \* keys of the JSON body sent
    responseMessage,    \* body.message of an error response, "" otherwise
    \* observation of the run (what the handler did)
    nResponse,          \* responses produced
    nSearch,            \* web searches issued
    nSubmit,            \* actor runs (scrape / enrichment jobs) submitted
    nPoll,              \* job status polls
    nScore,             \* scoring calls issued
    nInsert,            \* inserts into `leads` issued
    insertResult,       \* "none" | "ok" | "error" | "throw"
    jobStatus,          \* "none" | "SUCCEEDED" | "FAILED" | "TIMEOUT"
    rawCount,           \* records returned by sourcing, -1 before it returned
    replies,            \* the scoring model's reply for each lead scored so far
    \* the generate-leads page (browser)
    inputMethod,        \* 'form' | 'chat': which polling client is mounted
    form,               \* LeadGenerationForm: state, refs, timers, requests
    chat,               \* ChatInterface: state, refs, timers, requests
    now,                \* wall clock in seconds (toLocaleTimeString)
    \* the route's pure functions, applied to one input
    source,             \* "apollo" | "google_apify": whose results.map runs
    person,             \* one raw record of the dataset (person / profile)
    mapped,             \* the lead mapped from it, once mapped
    remapped,           \* the lead mapped from `mapped`, once mapped again
    queryData,          \* the argument of generateApolloUrl
    apolloUrl,          \* the query parts it returns, once built
    \* the webhook route and the tables it writes
    webhookSecret,      \* process.env.RESEND_WEBHOOK_SECRET is set
    emailStatus,        \* leads.email_status of the lead the events are about
    emailEvents,        \* rows of email_events: <<request, eventType>>
    hooks,              \* the webhook requests received: position, event, signature
    \* the ICP configuration route
    icpSettings,        \* the user's row of icp_settings, <<>> when there is none
    icp,                \* the request being handled
    \* the templates route, action 'use'
    usageCount,         \* email_templates.usage_count of the template
    uses                \* the 'use' requests received: position, value read, response

envVars  == <<apifyConfigured, googleConfigured, openaiConfigured>>
reqVars  == <<method, jobTitles, locations>>
ctlVars  == <<pc, leads, i, outcome, httpStatus, count, responseFields, responseMessage,
              nResponse>>
obsVars  == <<nSearch, nSubmit, nPoll, nScore, nInsert, insertResult, jobStatus,
              rawCount, replies>>
pipeVars == <<envVars, reqVars, ctlVars, attempts, obsVars>>

clientVars == <<inputMethod, form, chat, now>>

unitVars == <<source, person, mapped, remapped, queryData, apolloUrl>>

svcVars == <<webhookSecret, emailStatus, emailEvents, hooks, icpSettings, icp,
             usageCount, uses>>

vars == <<pipeVars, clientVars, unitVars, svcVars>>

(* --------------------------- request values ---------------------------- *)

\* What a body field can hold: absent, an empty array, an array of terms.
TermValues == {"undefined", "emptyarray", "terms"}
MethodValues == {"undefined", "apollo", "google_apify", "other"}

\* JavaScript's !x for the values above: an empty array is truthy.
Falsy(v) == v = "undefined"

(* ------------------------------ scoring -------------------------------- *)

Absent == "absent"

\* A JSON number that may be missing: <<>> or <<n>>.
None == <<>>
Some(n) == <<n>>

\* What openai.chat.completions.create can produce for one lead.
Replies ==
    { [kind |-> "throw",     score |-> None,      grade |-> Absent, reasoning |-> Absent],
      [kind |-> "nocontent", score |-> None,      grade |-> Absent, reasoning |-> Absent],
      [kind |-> "nonjson",   score |-> None,      grade |-> Absent, reasoning |-> Absent],
      [kind |-> "json",      score |-> Some(85),  grade |-> "A",    reasoning |-> "fit"],
      [kind |-> "json",      score |-> Some(0),   grade |-> "D",    reasoning |-> "no fit"],
      [kind |-> "json",      score |-> Some(150), grade |-> "F",    reasoning |-> "fit"],
      [kind |-> "json",      score |-> Some(85),  grade |-> "A",    reasoning |-> Absent],
      [kind |-> "json",      score |-> None,      grade |-> Absent, reasoning |-> Absent] }

DefaultFailureScore ==
    [score |-> 0, grade |-> "D", reasoning |-> "Error during scoring"]

\* result.score || 0
ScoreOrZero(x) == IF x = None THEN 0 ELSE x[1]

\* x || d for a JSON string: a missing key is falsy.
OrElse(x, d) == IF x = Absent THEN d ELSE x

scoreProfile_WrongDefault(reply) ==
    IF reply.kind # "json"
    THEN [score |-> 0, grade |-> "F", reasoning |-> "Error during scoring"]
    ELSE [score     |-> ScoreOrZero(reply.score),
          grade     |-> OrElse(reply.grade, "D"),
          reasoning |-> OrElse(reply.reasoning, "No reasoning provided")]

\* scoreProfile: the call, the content check, JSON.parse and the catch.
scoreProfile(reply) ==
    IF reply.kind # "json"
    THEN DefaultFailureScore
    ELSE [score     |-> ScoreOrZero(reply.score),
          grade     |-> OrElse(reply.grade, "D"),
          reasoning |-> OrElse(reply.reasoning, "No reasoning provided")]

Unscored == "unscored"

\* A mapped record: the scoring fields are absent until the scoring loop.
NewLead(k) ==
    [id |-> k, icp_score |-> None, icp_grade |-> Unscored, icpReasoning |-> Unscored]

\* leads[i] = { ...leads[i], icp_score, icp_grade, icpReasoning }
ScoreLead(lead, reply) ==
    LET icpResult == scoreProfile(reply)
    IN  [lead EXCEPT !.icp_score    = Some(icpResult.score),
                     !.icp_grade    = icpResult.grade,
                     !.icpReasoning = icpResult.reasoning]

(* ----------------------- responses and control ------------------------- *)

\* RespondError with the return forgotten: the handler answers and goes on.
RespondError_NoReturn(code, msg) ==
    /\ pc' = pc
    /\ outcome' = "error"
    /\ httpStatus' = code
    /\ responseFields' = {"status", "message"}
    /\ responseMessage' = msg
    /\ nResponse' = nResponse + 1
    /\ UNCHANGED <<leads, i, count>>

\* return NextResponse.json({status:'error', message, ...}, {status: code})
RespondError(code, msg) ==
    /\ pc' = "done"
    /\ outcome' = "error"
    /\ httpStatus' = code
    /\ responseFields' = {"status", "message"}
    /\ responseMessage' = msg
    /\ nResponse' = nResponse + 1
    /\ UNCHANGED <<leads, i, count>>

\* RespondSuccess with the count taken over the leads whose scoring succeeded.
RespondSuccess_CountScored(ls) ==
    /\ pc' = "done"
    /\ outcome' = "success"
    /\ httpStatus' = 200
    /\ responseFields' = {"status", "leads", "count", "method", "timestamp"}
    /\ responseMessage' = ""
    /\ count' = Cardinality({k \in 1..Len(ls) :
                               ls[k].icpReasoning # "Error during scoring"})
    /\ leads' = ls
    /\ nResponse' = nResponse + 1
    /\ UNCHANGED i

\* return NextResponse.json({status:'success', data:{leads, count, method, timestamp}})
RespondSuccess(ls) ==
    /\ pc' = "done"
    /\ outcome' = "success"
    /\ httpStatus' = 200
    /\ responseFields' = {"status", "leads", "count", "method", "timestamp"}
    /\ responseMessage' = ""
    /\ count' = Len(ls)
    /\ leads' = ls
    /\ nResponse' = nResponse + 1
    /\ UNCHANGED i

\* The handler suspends at the next await.
Suspend(p, ls, idx) ==
    /\ pc' = p
    /\ leads' = ls
    /\ i' = idx
    /\ UNCHANGED <<outcome, httpStatus, count, responseFields, responseMessage,
                   nResponse>>

SaveOrRespond_NoSave(ls) ==
    RespondSuccess(ls) /\ nInsert' = nInsert

\* if (leads.length > 0) { insert } ; return success
SaveOrRespond(ls) ==
    IF Len(ls) > 0
    THEN Suspend("save", ls, i) /\ nInsert' = nInsert + 1
    ELSE RespondSuccess(ls) /\ nInsert' = nInsert

\* ScoreOrSave with the insert issued together with the first scoring call.
ScoreOrSave_InsertWhileScoring(ls) ==
    IF openaiConfigured /\ Len(ls) > 0
    THEN Suspend("score", ls, 0) /\ nScore' = nScore + 1 /\ nInsert' = nInsert + 1
    ELSE SaveOrRespond(ls) /\ nScore' = nScore

\* if (process.env.OPENAI_API_KEY) for (i = 0; i < leads.length; i++) await scoreProfile
ScoreOrSave(ls) ==
    IF openaiConfigured /\ Len(ls) > 0
    THEN Suspend("score", ls, 0) /\ nScore' = nScore + 1 /\ nInsert' = nInsert
    ELSE SaveOrRespond(ls) /\ nScore' = nScore

(* ------------------------------ actions -------------------------------- *)

\* The handler before a request: nothing received, nothing done.
PipelineIdle ==
    /\ method = "undefined" /\ jobTitles = "undefined" /\ locations = "undefined"
    /\ pc = "recv"
    /\ leads = <<>>
    /\ attempts = 0
    /\ i = 0
    /\ outcome = "none" /\ httpStatus = 0 /\ count = 0 /\ responseFields = {}
    /\ responseMessage = ""
    /\ nResponse = 0 /\ nSearch = 0 /\ nSubmit = 0 /\ nPoll = 0
    /\ nScore = 0 /\ nInsert = 0
    /\ insertResult = "none" /\ jobStatus = "none" /\ rawCount = -1
    /\ replies = <<>>

InitPipeline ==
    /\ apifyConfigured \in BOOLEAN
    /\ googleConfigured \in BOOLEAN
    /\ openaiConfigured \in BOOLEAN
    /\ PipelineIdle

\* POST up to its first await of an external call: request.json(), the
\* destructuring, the parameter and configuration checks, and the first fetch
\* of searchApolloLeads / searchGoogleLeads being issued.
POST_Receive ==
    /\ pc = "recv"
    /\ \E m \in MethodValues, jt \in TermValues, loc \in TermValues :
         /\ method' = m /\ jobTitles' = jt /\ locations' = loc
         /\ IF Falsy(m) \/ Falsy(jt) \/ Falsy(loc)
            THEN RespondError(400, "Missing required parameters") /\ UNCHANGED <<nSearch, nSubmit>>
            ELSE IF m = "apollo"
            THEN IF ~apifyConfigured
                 THEN RespondError(500, "Apify API tokens not configured") /\ UNCHANGED <<nSearch, nSubmit>>
                 ELSE /\ Suspend("apollo_submit", <<>>, i)
                      /\ nSubmit' = nSubmit + 1
                      /\ UNCHANGED nSearch
            ELSE IF m = "google_apify"
            THEN IF ~(googleConfigured /\ apifyConfigured)
                 THEN RespondError(500, "Google or Apify API credentials not configured") /\ UNCHANGED <<nSearch, nSubmit>>
                 ELSE /\ Suspend("google_search", <<>>, i)
                      /\ nSearch' = nSearch + 1
                      /\ UNCHANGED nSubmit
            ELSE RespondError(400, "Invalid method specified") /\ UNCHANGED <<nSearch, nSubmit>>
    /\ UNCHANGED <<svcVars, unitVars, clientVars, envVars, attempts, nPoll, nScore, nInsert, insertResult,
                   jobStatus, rawCount, replies>>

\* request.json() throws: the catch of POST answers 500.
POST_BadBody ==
    /\ pc = "recv"
    /\ RespondError(500, "Unexpected end of JSON input")
    /\ UNCHANGED <<svcVars, unitVars, clientVars, envVars, reqVars, attempts, obsVars>>

\* The actor-run POST returns: !runResponse.ok or a network error throws,
\* otherwise the poll loop starts with attempts = 0.
SubmitReturn(here, pollPc) ==
    /\ pc = here
    /\ \E r \in {"ok", "notok", "throw"} :
         IF r = "ok"
         THEN Suspend(pollPc, leads, i) /\ attempts' = 0
         ELSE /\ RespondError(500, IF r = "notok" THEN "Apify run failed"
                                                    ELSE "fetch failed")
              /\ UNCHANGED attempts
    /\ UNCHANGED <<svcVars, unitVars, clientVars, envVars, reqVars, obsVars>>

\* PollStep with a failed or timed-out job treated as an empty result set.
PollStep_Degrade(here, fetchPc) ==
    /\ pc = here
    /\ attempts < maxAttempts
    /\ nPoll' = nPoll + 1
    /\ \E st \in {"RUNNING", "SUCCEEDED", "FAILED", "THROW"} :
         CASE st = "SUCCEEDED" ->
                /\ jobStatus' = "SUCCEEDED"
                /\ Suspend(fetchPc, leads, i)
                /\ UNCHANGED <<attempts, rawCount, nScore, nInsert>>
           [] st = "FAILED" ->
                /\ jobStatus' = "FAILED"
                /\ rawCount' = 0
                /\ ScoreOrSave(<<>>)
                /\ UNCHANGED attempts
           [] st = "THROW" ->
                /\ RespondError(500, "fetch failed")
                /\ UNCHANGED <<attempts, jobStatus, rawCount, nScore, nInsert>>
           [] st = "RUNNING" ->
                /\ attempts' = attempts + 1
                /\ IF attempts + 1 < maxAttempts
                   THEN /\ Suspend(here, leads, i)
                        /\ UNCHANGED <<jobStatus, rawCount, nScore, nInsert>>
                   ELSE /\ jobStatus' = "TIMEOUT"
                        /\ rawCount' = 0
                        /\ ScoreOrSave(<<>>)
    /\ UNCHANGED <<svcVars, unitVars, clientVars, envVars, reqVars, nSearch, nSubmit, insertResult, replies>>

\* PollStep with attempts++ forgotten (the poll counter of the observation
\* wraps around, so that the endless loop is a cycle of states).
PollStep_NoIncrement(here, fetchPc) ==
    /\ pc = here
    /\ attempts < maxAttempts
    /\ nPoll' = IF nPoll < maxAttempts THEN nPoll + 1 ELSE 1
    /\ \E st \in {"RUNNING", "SUCCEEDED", "FAILED", "THROW"} :
         CASE st = "SUCCEEDED" ->
                /\ jobStatus' = "SUCCEEDED"
                /\ Suspend(fetchPc, leads, i)
           [] st = "FAILED" ->
                /\ jobStatus' = "FAILED"
                /\ RespondError(500, "Apify actor run failed")
           [] st = "THROW" ->
                /\ RespondError(500, "fetch failed")
                /\ UNCHANGED jobStatus
           [] st = "RUNNING" ->
                /\ Suspend(here, leads, i)
                /\ UNCHANGED jobStatus
    /\ UNCHANGED <<svcVars, unitVars, clientVars, envVars, reqVars, attempts, nSearch, nSubmit, nScore, nInsert,
                   insertResult, rawCount, replies>>

\* PollStep with the two throws confused: a job that reports FAILED raises the
\* timeout error.
PollStep_FailedAsTimeout(here, fetchPc) ==
    /\ pc = here
    /\ attempts < maxAttempts
    /\ nPoll' = nPoll + 1
    /\ \E st \in {"RUNNING", "SUCCEEDED", "FAILED", "THROW"} :
         CASE st = "SUCCEEDED" ->
                /\ jobStatus' = "SUCCEEDED"
                /\ Suspend(fetchPc, leads, i)
                /\ UNCHANGED attempts
           [] st = "FAILED" ->
                /\ jobStatus' = "FAILED"
                /\ RespondError(500, "Apify actor run timeout")
                /\ UNCHANGED attempts
           [] st = "THROW" ->
                /\ RespondError(500, "fetch failed")
                /\ UNCHANGED <<attempts, jobStatus>>
           [] st = "RUNNING" ->
                /\ attempts' = attempts + 1
                /\ IF attempts + 1 < maxAttempts
                   THEN Suspend(here, leads, i) /\ UNCHANGED jobStatus
                   ELSE jobStatus' = "TIMEOUT" /\ RespondError(500, "Apify actor run timeout")
    /\ UNCHANGED <<svcVars, unitVars, clientVars, envVars, reqVars, nSearch, nSubmit, nScore, nInsert,
                   insertResult, rawCount, replies>>

\* One iteration of while (attempts < maxAttempts): the 2 s sleep, the status
\* fetch, the two status tests, attempts++, and the throw after the loop.
PollStep(here, fetchPc) ==
    /\ pc = here
    /\ attempts < maxAttempts
    /\ nPoll' = nPoll + 1
    /\ \E st \in {"RUNNING", "SUCCEEDED", "FAILED", "THROW"} :
         CASE st = "SUCCEEDED" ->
                /\ jobStatus' = "SUCCEEDED"
                /\ Suspend(fetchPc, leads, i)
                /\ UNCHANGED attempts
           [] st = "FAILED" ->
                /\ jobStatus' = "FAILED"
                /\ RespondError(500, "Apify actor run failed")
                /\ UNCHANGED attempts
           [] st = "THROW" ->
                /\ RespondError(500, "fetch failed")
                /\ UNCHANGED <<attempts, jobStatus>>
           [] st = "RUNNING" ->
                /\ attempts' = attempts + 1
                /\ IF attempts + 1 < maxAttempts
                   THEN Suspend(here, leads, i) /\ UNCHANGED jobStatus
                   ELSE jobStatus' = "TIMEOUT" /\ RespondError(500, "Apify actor run timeout")
    /\ UNCHANGED <<svcVars, unitVars, clientVars, envVars, reqVars, nSearch, nSubmit, nScore, nInsert,
                   insertResult, rawCount, replies>>

\* The dataset fetch returns n records (or fails); results.map builds the
\* leads, and POST goes on to the scoring loop.
FetchReturn(here) ==
    /\ pc = here
    /\ \E n \in 0..MaxLeads, ok \in BOOLEAN :
         IF ok
         THEN /\ rawCount' = n
              /\ ScoreOrSave([k \in 1..n |-> NewLead(k)])
         ELSE /\ RespondError(500, "fetch failed")
              /\ UNCHANGED <<rawCount, nScore, nInsert>>
    /\ UNCHANGED <<svcVars, unitVars, clientVars, envVars, reqVars, attempts, nSearch, nSubmit, nPoll,
                   insertResult, jobStatus, replies>>

ApolloSubmitReturn == SubmitReturn("apollo_submit", "apollo_poll")

ApolloPoll_Degrade == PollStep_Degrade("apollo_poll", "apollo_fetch")

ApolloPoll_NoIncrement == PollStep_NoIncrement("apollo_poll", "apollo_fetch")

ApolloPoll == PollStep("apollo_poll", "apollo_fetch")

ApolloFetchReturn == FetchReturn("apollo_fetch")

GoogleSearchReturn_EmptyIsError ==
    /\ pc = "google_search"
    /\ \E r \in {"fail", "noitems", "nolinks", "links"} :
         IF r = "links"
         THEN /\ Suspend("google_submit", leads, i)
              /\ nSubmit' = nSubmit + 1
              /\ UNCHANGED <<rawCount, nScore, nInsert>>
         ELSE /\ RespondError(500, "Google Search API error")
              /\ rawCount' = IF r = "fail" THEN rawCount ELSE 0
              /\ UNCHANGED <<nSubmit, nScore, nInsert>>
    /\ UNCHANGED <<svcVars, unitVars, clientVars, envVars, reqVars, attempts, nSearch, nPoll, insertResult,
                   jobStatus, replies>>

\* The web search returns: !ok throws; no items, or no profile link among
\* them, returns []; otherwise the enrichment actor run is submitted.
GoogleSearchReturn ==
    /\ pc = "google_search"
    /\ \E r \in {"fail", "noitems", "nolinks", "links"} :
         CASE r = "fail" ->
                /\ RespondError(500, "Google Search API error")
                /\ UNCHANGED <<rawCount, nSubmit, nScore, nInsert>>
           [] r \in {"noitems", "nolinks"} ->
                /\ rawCount' = 0
                /\ ScoreOrSave(<<>>)
                /\ UNCHANGED nSubmit
           [] r = "links" ->
                /\ Suspend("google_submit", leads, i)
                /\ nSubmit' = nSubmit + 1
                /\ UNCHANGED <<rawCount, nScore, nInsert>>
    /\ UNCHANGED <<svcVars, unitVars, clientVars, envVars, reqVars, attempts, nSearch, nPoll, insertResult,
                   jobStatus, replies>>

GoogleSubmitReturn == SubmitReturn("google_submit", "google_poll")

GooglePoll_Degrade == PollStep_Degrade("google_poll", "google_fetch")

GooglePoll_FailedAsTimeout == PollStep_FailedAsTimeout("google_poll", "google_fetch")

GooglePoll == PollStep("google_poll", "google_fetch")

GoogleFetchReturn == FetchReturn("google_fetch")

\* One scoring call returns: leads[i] gets its scoring fields, i++, and either
\* the next call is issued or the loop ends and POST goes on to the insert.
ScoreStep ==
    /\ pc = "score"
    /\ i < Len(leads)
    /\ \E reply \in Replies :
         LET ls == [leads EXCEPT ![i + 1] = ScoreLead(@, reply)]
         IN  /\ replies' = Append(replies, reply)
             /\ IF i + 1 < Len(leads)
                THEN /\ Suspend("score", ls, i + 1)
                     /\ nScore' = nScore + 1
                     /\ nInsert' = nInsert
                ELSE /\ SaveOrRespond(ls)
                     /\ nScore' = nScore
    /\ UNCHANGED <<svcVars, unitVars, clientVars, envVars, reqVars, attempts, nSearch, nSubmit, nPoll,
                   insertResult, jobStatus, rawCount>>

\* The insert returns { error }, or throws, or succeeds: the first two are
\* logged; in every case the success response follows.
SaveReturn ==
    /\ pc = "save"
    /\ \E r \in {"ok", "error", "throw"} :
         insertResult' = r
    /\ RespondSuccess(leads)
    /\ UNCHANGED <<svcVars, unitVars, clientVars, envVars, reqVars, attempts, nSearch, nSubmit, nPoll,
                   nScore, nInsert, jobStatus, rawCount, replies>>

(* ======================= the polling clients =========================== *)

Sessions == 1..MaxSessions

\* What GET /api/generate-leads/status can give one poll: a network error, an
\* empty body, the not-found result, or the session's latest event.
StatusReplies ==
    {"throw", "nodata", "not_found", "started", "lead_scored", "heartbeat",
     "generation_completed", "error"}

TerminalEvents == {"generation_completed", "error"}

RECURSIVE SumOver(_, _)
SumOver(f, S) ==
    IF S = {} THEN 0
    ELSE LET x == CHOOSE y \in S : TRUE IN f[x] + SumOver(f, S \ {x})

\* Status requests sent and not yet answered, over all sessions.
InFlight(inflight) == SumOver(inflight, Sessions)

(* ------------------------ LeadGenerationForm --------------------------- *)

NoSession == 0
NoTimer == 0

\* The component after its first render.
FormInit ==
    [ mounted |-> TRUE,
      isLoading |-> FALSE,
      generationResult |-> "null",
      statusUpdates |-> <<>>,
      currentSessionId |-> NoSession,
      currentPhase |-> "",
      estimatedTimeRemaining |-> "null",
      pollingIntervalRef |-> NoTimer,
      isPollingRef |-> FALSE,
      timers |-> {},                        \* intervals running, by session
      retryCount |-> [s \in Sessions |-> 0],\* pollStatus.retryCount, by session
      inflight |-> [s \in Sessions |-> 0],  \* status requests not yet answered
      submitting |-> 0,                     \* onSubmit calls awaiting generateLeads
      nSubmit |-> 0,                        \* runs started by onSubmit
      nSessions |-> 0 ]                     \* session ids received

\* The message LeadGenerationForm shows for an event.
FormMessage(type) ==
    CASE type = "started"              -> "started: Lead generation started"
      [] type = "lead_scored"          -> "Scoring progress: 1/2 (50%)"
      [] type = "generation_completed" -> "completed: Generation completed"
      [] type = "error"                -> "error: An error occurred"
      [] OTHER                         -> ""

addUniqueStatusUpdate_MoveToEnd(prev, message) ==
    Append(SelectSeq(prev, LAMBDA m : m # message), message)

\* setStatusUpdates(prev => prev.some(u => u.message === m) ? prev : [...prev, u])
addUniqueStatusUpdate(prev, message) ==
    IF \E k \in 1..Len(prev) : prev[k] = message
    THEN prev
    ELSE Append(prev, message)

\* clearInterval(pollingIntervalRef.current); pollingIntervalRef.current = null
ClearPollingInterval(f) ==
    IF f.pollingIntervalRef # NoTimer
    THEN [f EXCEPT !.timers = @ \ {f.pollingIntervalRef},
                   !.pollingIntervalRef = NoTimer]
    ELSE f

\* setIsLoading(false); isPollingRef.current = false; clear the interval;
\* setCurrentSessionId(null)
FormStopPolling(f) ==
    [ClearPollingInterval(f) EXCEPT !.isLoading = FALSE,
                                    !.isPollingRef = FALSE,
                                    !.currentSessionId = NoSession]

\* The non-terminal branches of pollStatus's if / else-if chain.
FormProgress(f, type) ==
    CASE type = "started" ->
           [f EXCEPT !.currentPhase = "Starting lead generation...",
                     !.estimatedTimeRemaining = "120",
                     !.statusUpdates = addUniqueStatusUpdate(@, FormMessage(type))]
      [] type = "lead_scored" ->
           [f EXCEPT !.statusUpdates = addUniqueStatusUpdate(@, FormMessage(type))]
      [] OTHER -> f

\* The two termination cases at the end of pollStatus.
FormTerminal(f, type) ==
    CASE type = "generation_completed" ->
           FormStopPolling(
              [f EXCEPT !.currentPhase = "Completed!",
                        !.estimatedTimeRemaining = "0",
                        !.statusUpdates = addUniqueStatusUpdate(@, FormMessage(type)),
                        !.generationResult = "success"])
      [] type = "error" ->
           FormStopPolling(
              [f EXCEPT !.statusUpdates = addUniqueStatusUpdate(@, FormMessage(type))])
      [] OTHER -> f

\* FormHandleStatus giving up one not-found answer late (> for >=).
FormHandleStatus_RetryOffByOne(f, s, reply) ==
    CASE reply \in {"throw", "nodata"} -> f
      [] reply = "not_found" ->
           LET g == [f EXCEPT !.retryCount[s] = @ + 1]
           IN  IF g.retryCount[s] > MaxNotFoundRetries
               THEN FormStopPolling(g)
               ELSE g
      [] OTHER ->
           FormTerminal(FormProgress([f EXCEPT !.retryCount[s] = 0], reply), reply)

\* FormHandleStatus without the not-found branch: the answer falls through to
\* the status chain and is shown as the session's error event.
FormHandleStatus_NotFoundIsError(f, s, reply) ==
    CASE reply \in {"throw", "nodata"} -> f
      [] reply = "not_found" ->
           FormTerminal([f EXCEPT !.retryCount[s] = @ + 1], "error")
      [] OTHER ->
           FormTerminal(FormProgress([f EXCEPT !.retryCount[s] = 0], reply), reply)

\* pollStatus after its await, for a poll of session s answered with reply.
FormHandleStatus(f, s, reply) ==
    CASE reply \in {"throw", "nodata"} -> f
      [] reply = "not_found" ->
           LET g == [f EXCEPT !.retryCount[s] = @ + 1]
           IN  IF g.retryCount[s] >= MaxNotFoundRetries
               THEN FormStopPolling(g)
               ELSE g
      [] OTHER ->
           FormTerminal(FormProgress([f EXCEPT !.retryCount[s] = 0], reply), reply)

\* React drops the state updates of an unmounted component; refs, timers and
\* requests are plain JavaScript and change all the same.
FormCommit(f, g) ==
    IF f.mounted
    THEN g
    ELSE [f EXCEPT !.pollingIntervalRef = g.pollingIntervalRef,
                   !.isPollingRef = g.isPollingRef,
                   !.timers = g.timers,
                   !.retryCount = g.retryCount,
                   !.inflight = g.inflight,
                   !.submitting = g.submitting,
                   !.nSessions = g.nSessions]

\* pollStatus up to its await: the isPollingRef guard, then the request.
FormPollStatus(f, s) ==
    IF f.isPollingRef /\ InFlight(f.inflight) < MaxInFlight
    THEN [f EXCEPT !.inflight[s] = @ + 1]
    ELSE f

\* startStatusPolling(sessionId)
FormStartStatusPolling(f, s) ==
    LET g == [ClearPollingInterval(f) EXCEPT !.isPollingRef = TRUE]
        h == [g EXCEPT !.pollingIntervalRef = s, !.timers = @ \cup {s}]
    IN  FormPollStatus(h, s)

\* handleSubmit(onSubmit) calls onSubmit only when the registered required
\* fields (jobTitle, location, industry) are filled in, so the required-field
\* check inside onSubmit always passes.
SubmittedFieldsGiven == {TRUE}

\* onSubmit up to its await: the state reset, the required-field check, and
\* the generateLeads request.
F_onSubmit ==
    /\ inputMethod = "form"
    /\ form.mounted /\ ~form.isLoading
    /\ form.nSubmit < MaxSessions
    /\ \E fieldsGiven \in SubmittedFieldsGiven :
         form' = [form EXCEPT !.isLoading = TRUE,
                              !.generationResult = "null",
                              !.statusUpdates = <<>>,
                              !.currentPhase = "",
                              !.estimatedTimeRemaining = "null",
                              !.nSubmit = @ + 1,
                              !.submitting = IF fieldsGiven THEN @ + 1 ELSE @]
    /\ UNCHANGED <<svcVars, unitVars, pipeVars, inputMethod, chat, now>>

\* generateLeads returns: status 'success' with a session id starts the
\* polling; another status, or a throw, sets a failed generationResult.
F_generateLeadsReturn ==
    /\ inputMethod = "form"
    /\ form.submitting > 0
    /\ \E r \in {"success", "failure", "throw"} :
         LET f == [form EXCEPT !.submitting = @ - 1]
             s == form.nSessions + 1
         IN  form' = FormCommit(form,
               CASE r = "success" ->
                      FormStartStatusPolling(
                        [f EXCEPT !.nSessions = s, !.currentSessionId = s], s)
                 [] r = "failure" ->
                      FormStopPolling([f EXCEPT !.generationResult = "failure"])
                 [] r = "throw" ->
                      [f EXCEPT !.generationResult = "failure"])
    /\ UNCHANGED <<svcVars, unitVars, pipeVars, inputMethod, chat, now>>

\* The interval of session s fires: pollStatus is called.
F_Tick ==
    /\ inputMethod = "form"
    /\ \E s \in form.timers :
         /\ FormPollStatus(form, s) # form
         /\ form' = FormPollStatus(form, s)
    /\ UNCHANGED <<svcVars, unitVars, pipeVars, inputMethod, chat, now>>

\* A status request of session s is answered with reply: pollStatus resumes
\* after its await.
F_PollReturnWith(s, reply) ==
    /\ inputMethod = "form"
    /\ form.inflight[s] > 0
    /\ form' = FormCommit(form,
          FormHandleStatus([form EXCEPT !.inflight[s] = @ - 1], s, reply))
    /\ UNCHANGED <<svcVars, unitVars, pipeVars, inputMethod, chat, now>>

\* A status request is answered.
F_PollReturn ==
    \E s \in Sessions, reply \in StatusReplies : F_PollReturnWith(s, reply)

\* The component unmounts: the cleanup of the polling effect runs.
F_Unmount ==
    /\ inputMethod = "form"
    /\ form.mounted
    /\ form' = [ClearPollingInterval(form) EXCEPT
                  !.mounted = FALSE,
                  !.isPollingRef = IF form.pollingIntervalRef # NoTimer
                                   THEN FALSE ELSE @]
    /\ UNCHANGED <<svcVars, unitVars, pipeVars, inputMethod, chat, now>>

(* --------------------------- ChatInterface ----------------------------- *)

\* The component after its first render (mounted tells whether the page
\* shows it).
ChatInit ==
    [ mounted |-> TRUE,
      isLoading |-> FALSE,
      isGeneratingLeads |-> FALSE,
      statusUpdates |-> <<>>,
      currentSessionId |-> NoSession,
      statusPollingRef |-> NoTimer,
      timers |-> {},                        \* intervals running, by session
      inflight |-> [s \in Sessions |-> 0],  \* status requests not yet answered
      awaiting |-> FALSE,                   \* handleSubmit awaits sendChatMessage
      nSessions |-> 0 ]                     \* sessions started

\* The text ChatInterface shows for an event (after the time stamp).
ChatMessage(type) ==
    CASE type = "generation_completed" -> "Lead generation completed! Generated 0 leads"
      [] type = "error"                -> "Lead generation failed"
      [] type = "started"              -> "Lead generation started"
      [] type = "lead_scored"          -> "Scored lead (Leads scored: 1)"
      [] type = "throw"                -> "Status polling error"
      [] OTHER                         -> ""

\* `[${timestamp}] ${statusMessage}`
Stamped(t, text) == <<t, text>>

\* if (prev[prev.length - 1] !== newUpdate) return [...prev, newUpdate]
AppendUnlessLast(prev, newUpdate) ==
    IF Len(prev) > 0 /\ prev[Len(prev)] = newUpdate
    THEN prev
    ELSE Append(prev, newUpdate)

\* clearInterval(statusPollingRef.current); statusPollingRef.current = null
ClearStatusPolling(c) ==
    IF c.statusPollingRef # NoTimer
    THEN [c EXCEPT !.timers = @ \ {c.statusPollingRef},
                   !.statusPollingRef = NoTimer]
    ELSE c

\* pollStatus after its await, for a poll of session s answered at time t.
ChatHandleStatus(c, s, reply, t) ==
    CASE reply = "throw" ->
           [c EXCEPT !.statusUpdates = Append(@, Stamped(t, ChatMessage(reply)))]
      [] reply \in TerminalEvents ->
           [ClearStatusPolling(c) EXCEPT
              !.statusUpdates = Append(@, Stamped(t, ChatMessage(reply))),
              !.isGeneratingLeads = FALSE]
      [] reply \in {"started", "lead_scored"} ->
           [c EXCEPT !.statusUpdates =
                        AppendUnlessLast(@, Stamped(t, ChatMessage(reply)))]
      [] OTHER -> c

\* React drops the state updates of an unmounted component.
ChatCommit(c, g) ==
    IF c.mounted
    THEN g
    ELSE [c EXCEPT !.statusPollingRef = g.statusPollingRef,
                   !.timers = g.timers,
                   !.inflight = g.inflight,
                   !.awaiting = g.awaiting,
                   !.nSessions = g.nSessions]

\* pollStatus up to its await: the request is sent.
ChatPollStatus(c, s) ==
    IF InFlight(c.inflight) < MaxInFlight
    THEN [c EXCEPT !.inflight[s] = @ + 1]
    ELSE c

\* startStatusPolling(sessionId): the interval of an earlier session is not
\* cleared, only the ref is overwritten.
ChatStartStatusPolling(c, s) ==
    LET g == [c EXCEPT !.currentSessionId = s,
                       !.isGeneratingLeads = TRUE,
                       !.statusUpdates = <<>>]
        h == ChatPollStatus(g, s)
    IN  [h EXCEPT !.statusPollingRef = s, !.timers = @ \cup {s}]

\* handleSubmit up to its await: the message is sent.
C_handleSubmit ==
    /\ inputMethod = "chat"
    /\ chat.mounted /\ ~chat.isLoading /\ ~chat.awaiting
    /\ chat' = [chat EXCEPT !.isLoading = TRUE, !.awaiting = TRUE]
    /\ UNCHANGED <<svcVars, unitVars, pipeVars, inputMethod, form, now>>

\* sendChatMessage returns: a reply that started a lead generation starts the
\* polling; in every case isLoading ends.
C_sendChatMessageReturn ==
    /\ inputMethod = "chat"
    /\ chat.awaiting
    /\ \E r \in {"started", "reply", "failure", "throw"} :
         LET c == [chat EXCEPT !.awaiting = FALSE]
             s == chat.nSessions + 1
         IN  /\ r = "started" => chat.nSessions < MaxSessions
             /\ chat' = ChatCommit(chat,
                  [(IF r = "started"
                    THEN ChatStartStatusPolling([c EXCEPT !.nSessions = s], s)
                    ELSE c)
                   EXCEPT !.isLoading = FALSE])
    /\ UNCHANGED <<svcVars, unitVars, pipeVars, inputMethod, form, now>>

\* The interval of session s fires: pollStatus is called.
C_Tick ==
    /\ inputMethod = "chat"
    /\ \E s \in chat.timers :
         /\ InFlight(chat.inflight) < MaxInFlight
         /\ chat' = ChatPollStatus(chat, s)
    /\ UNCHANGED <<svcVars, unitVars, pipeVars, inputMethod, form, now>>

\* A status request of session s is answered with reply: pollStatus resumes
\* after its await.
C_PollReturnWith(s, reply) ==
    /\ inputMethod = "chat"
    /\ chat.inflight[s] > 0
    /\ chat' = ChatCommit(chat,
          ChatHandleStatus([chat EXCEPT !.inflight[s] = @ - 1], s, reply, now))
    /\ Len(chat'.statusUpdates) <= MaxUpdates
    /\ UNCHANGED <<svcVars, unitVars, pipeVars, inputMethod, form, now>>

\* A status request is answered.
C_PollReturn ==
    \E s \in Sessions, reply \in StatusReplies : C_PollReturnWith(s, reply)

\* The Stop button (shown while isGeneratingLeads).
C_stopStatusPolling ==
    /\ inputMethod = "chat"
    /\ chat.mounted /\ chat.isGeneratingLeads
    /\ chat' = [ClearStatusPolling(chat) EXCEPT !.isGeneratingLeads = FALSE,
                                                !.currentSessionId = NoSession]
    /\ UNCHANGED <<svcVars, unitVars, pipeVars, inputMethod, form, now>>

\* The component unmounts: the cleanup clears the interval the ref holds.
C_Unmount ==
    /\ inputMethod = "chat"
    /\ chat.mounted
    /\ chat' = [chat EXCEPT !.mounted = FALSE,
                            !.timers = @ \ {chat.statusPollingRef}]
    /\ UNCHANGED <<svcVars, unitVars, pipeVars, inputMethod, form, now>>

\* A second passes.
ClockTick ==
    /\ inputMethod = "chat"
    /\ now < MaxTime
    /\ now' = now + 1
    /\ UNCHANGED <<svcVars, unitVars, pipeVars, inputMethod, form, chat>>

(* ==================== the other route handlers ========================= *)

(* ----------------------- POST /api/webhook ----------------------------- *)

HookIds == 1..MaxHooks

\* event.type of the body; "unparsable" is a body JSON.parse throws on.
EventTypes ==
    {"email.sent", "email.delivered", "email.delivery_delayed", "email.complained",
     "email.bounced", "email.opened", "email.clicked", "other", "unparsable"}

\* The resend-signature header: absent (headers.get gives null), a value that
\* is not the HMAC of the body, the HMAC of the body.
Signatures == {"absent", "invalid", "valid"}

EmailStatuses ==
    {"not_sent", "sent", "opened", "clicked", "replied", "bounced", "complained"}

\* verifyWebhookSignature: timingSafeEqual of the header with the HMAC of the
\* body; a throw (buffers of different length) is caught and gives false.
verifyWebhookSignature(signature) == signature = "valid"

\* eventType written to email_events by the handler of an event type.
EventName(type) ==
    CASE type = "email.sent"             -> "sent"
      [] type = "email.delivered"        -> "delivered"
      [] type = "email.delivery_delayed" -> "delayed"
      [] type = "email.complained"       -> "complained"
      [] type = "email.bounced"          -> "bounced"
      [] type = "email.opened"           -> "opened"
      [] type = "email.clicked"          -> "clicked"
      [] OTHER                           -> "none"

\* No webhook request received yet.
HooksIdle ==
    /\ emailStatus = "not_sent"
    /\ emailEvents = {}
    /\ hooks = <<>>

\* return NextResponse.json(..., {status: code}) of POST (webhook)
HookRespond(r, code) == [r EXCEPT !.pc = "done", !.status = code]

\* POST up to the first await of a handler: the signature check, JSON.parse,
\* the switch, and the select of the lead by email being issued.
WebhookPOST ==
    /\ Len(hooks) < MaxHooks
    /\ \E sig \in Signatures, type \in EventTypes :
         LET r == [pc |-> "recv", type |-> type, signature |-> sig, status |-> 0]
         IN  hooks' = Append(hooks,
               IF webhookSecret /\ sig # "absent" /\ ~verifyWebhookSignature(sig)
               THEN HookRespond(r, 401)
               ELSE IF type = "unparsable"
               THEN HookRespond(r, 500)
               ELSE IF type = "other"
               THEN HookRespond(r, 200)
               ELSE [r EXCEPT !.pc = "find"])
    /\ UNCHANGED <<pipeVars, clientVars, unitVars, webhookSecret, emailStatus,
                   emailEvents, icpSettings, icp, usageCount, uses>>

\* The select of the lead returns: a lead, none, or a throw (caught by the
\* handler); with a lead the insert into email_events is issued.
HookFindReturn(w) ==
    /\ w \in DOMAIN hooks
    /\ hooks[w].pc = "find"
    /\ \E res \in {"lead", "nolead", "throw"} :
         hooks' = [hooks EXCEPT ![w] =
            IF res = "lead" THEN [@ EXCEPT !.pc = "insert"] ELSE HookRespond(@, 200)]
    /\ UNCHANGED <<pipeVars, clientVars, unitVars, webhookSecret, emailStatus,
                   emailEvents, icpSettings, icp, usageCount, uses>>

\* The insert into email_events returns (its error is not looked at; a throw
\* is caught by the handler): sent / delivered / delayed are finished,
\* complained / bounced issue the update, opened / clicked issue the select of
\* email_status.
HookInsertReturn(w) ==
    /\ w \in DOMAIN hooks
    /\ hooks[w].pc = "insert"
    /\ \E res \in {"ok", "error", "throw"} :
         /\ emailEvents' = IF res = "ok"
                           THEN emailEvents \cup {<<w, EventName(hooks[w].type)>>}
                           ELSE emailEvents
         /\ hooks' = [hooks EXCEPT ![w] =
              IF res = "throw"
              THEN HookRespond(@, 200)
              ELSE IF hooks[w].type \in {"email.complained", "email.bounced"}
              THEN [@ EXCEPT !.pc = "update"]
              ELSE IF hooks[w].type \in {"email.opened", "email.clicked"}
              THEN [@ EXCEPT !.pc = "read"]
              ELSE HookRespond(@, 200)]
    /\ UNCHANGED <<pipeVars, clientVars, unitVars, webhookSecret, emailStatus,
                   icpSettings, icp, usageCount, uses>>

\* handleEmailOpened / handleEmailClicked: the select of email_status returns;
\* if (currentLead && currentLead.email_status !== 'replied') the update is
\* issued.
HookReadReturn(w) ==
    /\ w \in DOMAIN hooks
    /\ hooks[w].pc = "read"
    /\ \E res \in {"row", "norow", "throw"} :
         hooks' = [hooks EXCEPT ![w] =
            IF res = "row" /\ emailStatus # "replied"
            THEN [@ EXCEPT !.pc = "update"]
            ELSE HookRespond(@, 200)]
    /\ UNCHANGED <<pipeVars, clientVars, unitVars, webhookSecret, emailStatus,
                   emailEvents, icpSettings, icp, usageCount, uses>>

\* The update of leads.email_status returns, and POST answers.
HookUpdateReturn(w) ==
    /\ w \in DOMAIN hooks
    /\ hooks[w].pc = "update"
    /\ \E res \in {"ok", "error", "throw"} :
         emailStatus' = IF res = "ok" THEN EventName(hooks[w].type) ELSE emailStatus
    /\ hooks' = [hooks EXCEPT ![w] = HookRespond(@, 200)]
    /\ UNCHANGED <<pipeVars, clientVars, unitVars, webhookSecret, emailEvents,
                   icpSettings, icp, usageCount, uses>>

\* PUT /api/leads: update({...updateData}) with an email_status in the body
\* (a request that fails, or carries none, changes nothing).
LeadsPUT ==
    /\ \E st \in EmailStatuses : emailStatus' = st
    /\ UNCHANGED <<pipeVars, clientVars, unitVars, webhookSecret, emailEvents, hooks,
                   icpSettings, icp, usageCount, uses>>

(* ------------------------ /api/icp/config ------------------------------ *)

Criteria ==
    {"jobTitle", "companySize", "industry", "location", "experience", "education",
     "skills"}

Criterion(e, w) == [enabled |-> e, weight |-> w]

\* DEFAULT_ICP_CONFIG.scoringCriteria
DefaultScoringCriteria ==
    [ jobTitle    |-> Criterion(TRUE, 25),
      companySize |-> Criterion(TRUE, 20),
      industry    |-> Criterion(TRUE, 20),
      location    |-> Criterion(TRUE, 15),
      experience  |-> Criterion(TRUE, 10),
      education   |-> Criterion(FALSE, 5),
      skills      |-> Criterion(FALSE, 5) ]

\* scoringCriteria objects a POST body carries in the model: the default
\* object, every criterion enabled, one weight raised by 10, one raised by 25.
PostedCriteria ==
    { DefaultScoringCriteria,
      [DefaultScoringCriteria EXCEPT !.education.enabled = TRUE,
                                     !.skills.enabled = TRUE],
      [DefaultScoringCriteria EXCEPT !.jobTitle.weight = 35],
      [DefaultScoringCriteria EXCEPT !.jobTitle.weight = 50] }

\* Object.values(scoringCriteria).filter(c => c.enabled)
\*       .reduce((sum, c) => sum + c.weight, 0)
TotalWeight(scoringCriteria) ==
    SumOver([c \in DOMAIN scoringCriteria |->
                IF scoringCriteria[c].enabled THEN scoringCriteria[c].weight ELSE 0],
            DOMAIN scoringCriteria)

\* No request received yet.
IcpIdleRequest ==
    [pc |-> "idle", verb |-> "none", scoringCriteria |-> <<>>, rest |-> FALSE,
     action |-> "none", existing |-> FALSE, status |-> 0, n |-> 0]

IcpIdle ==
    /\ icpSettings = <<>>
    /\ icp = IcpIdleRequest

IcpRespond(r, code) == [r EXCEPT !.pc = "done", !.status = code]

\* configData of POST ({scoringCriteria: scoringCriteria || DEFAULT...}) and of
\* PUT reset ({...DEFAULT_ICP_CONFIG}), as far as the scoring criteria go.
ConfigData(r) ==
    [scoringCriteria |->
        IF r.verb = "POST" /\ r.scoringCriteria # <<>>
        THEN r.scoringCriteria[1]
        ELSE DefaultScoringCriteria]

\* POST up to its first await after the body: the section check, the weight
\* validation, the authorization header, and getUser being called.
IcpPOST ==
    /\ icp.pc \in {"idle", "done"}
    /\ icp.n < MaxIcpRequests
    /\ \E parsed \in BOOLEAN, rest \in BOOLEAN, auth \in BOOLEAN,
          sc \in {<<>>} \cup {<<x>> : x \in PostedCriteria} :
         LET r == [IcpIdleRequest EXCEPT !.verb = "POST", !.scoringCriteria = sc,
                                         !.rest = rest, !.n = icp.n + 1]
         IN  icp' = IF ~parsed
                    THEN IcpRespond(r, 500)
                    ELSE IF sc = <<>> /\ ~rest
                    THEN IcpRespond(r, 400)
                    ELSE IF sc # <<>> /\ TotalWeight(sc[1]) # 100
                    THEN IcpRespond(r, 400)
                    ELSE IF ~auth
                    THEN IcpRespond(r, 401)
                    ELSE [r EXCEPT !.pc = "auth"]
    /\ UNCHANGED <<pipeVars, clientVars, unitVars, webhookSecret, emailStatus,
                   emailEvents, hooks, icpSettings, usageCount, uses>>

\* PUT up to its first await: the authorization header, and getUser being
\* called.
IcpPUT ==
    /\ icp.pc \in {"idle", "done"}
    /\ icp.n < MaxIcpRequests
    /\ \E auth \in BOOLEAN, action \in {"reset", "other"} :
         LET r == [IcpIdleRequest EXCEPT !.verb = "PUT", !.action = action,
                                         !.n = icp.n + 1]
         IN  icp' = IF ~auth THEN IcpRespond(r, 401) ELSE [r EXCEPT !.pc = "auth"]
    /\ UNCHANGED <<pipeVars, clientVars, unitVars, webhookSecret, emailStatus,
                   emailEvents, hooks, icpSettings, usageCount, uses>>

\* getUser returns: an invalid token is answered 401; PUT reads its body and
\* answers 400 to an action other than 'reset'; otherwise the select of the
\* user's row is issued.
IcpAuthReturn ==
    /\ icp.pc = "auth"
    /\ \E valid \in BOOLEAN :
         icp' = IF ~valid
                THEN IcpRespond(icp, 401)
                ELSE IF icp.verb = "PUT" /\ icp.action # "reset"
                THEN IcpRespond(icp, 400)
                ELSE [icp EXCEPT !.pc = "select"]
    /\ UNCHANGED <<pipeVars, clientVars, unitVars, webhookSecret, emailStatus,
                   emailEvents, hooks, icpSettings, usageCount, uses>>

\* The select of the existing row returns; the update or the insert of
\* configData is issued.
IcpSelectReturn ==
    /\ icp.pc = "select"
    /\ icp' = [icp EXCEPT !.pc = "write", !.existing = (icpSettings # <<>>)]
    /\ UNCHANGED <<pipeVars, clientVars, unitVars, webhookSecret, emailStatus,
                   emailEvents, hooks, icpSettings, usageCount, uses>>

\* The update / insert returns: result.error is answered 500, otherwise the
\* row holds configData and the answer is success.
IcpWriteReturn ==
    /\ icp.pc = "write"
    /\ \E ok \in BOOLEAN :
         IF ok
         THEN /\ icpSettings' = <<ConfigData(icp)>>
              /\ icp' = IcpRespond(icp, 200)
         ELSE /\ icpSettings' = icpSettings
              /\ icp' = IcpRespond(icp, 500)
    /\ UNCHANGED <<pipeVars, clientVars, unitVars, webhookSecret, emailStatus,
                   emailEvents, hooks, usageCount, uses>>

(* ---------------- POST /api/email/templates, action 'use' -------------- *)

UseIds == 1..MaxUses

\* No 'use' request received yet.
TemplatesIdle ==
    /\ usageCount = 0
    /\ uses = <<>>

UseRespond(r, code) == [r EXCEPT !.pc = "done", !.status = code]

\* POST with action 'use' up to its first await: the templateId check, and the
\* select of usage_count being issued.
TemplateUse ==
    /\ Len(uses) < MaxUses
    /\ \E templateId \in BOOLEAN :
         LET r == [pc |-> "recv", read |-> 0, status |-> 0]
         IN  uses' = Append(uses,
               IF ~templateId THEN UseRespond(r, 400) ELSE [r EXCEPT !.pc = "fetch"])
    /\ UNCHANGED <<pipeVars, clientVars, unitVars, webhookSecret, emailStatus,
                   emailEvents, hooks, icpSettings, icp, usageCount>>

\* The select returns: fetchError is answered 500; otherwise the update to
\* (template.usage_count || 0) + 1 is issued.
TemplateFetchReturn(u) ==
    /\ u \in DOMAIN uses
    /\ uses[u].pc = "fetch"
    /\ \E ok \in BOOLEAN :
         uses' = [uses EXCEPT ![u] =
            IF ok THEN [@ EXCEPT !.pc = "update", !.read = usageCount]
                  ELSE UseRespond(@, 500)]
    /\ UNCHANGED <<pipeVars, clientVars, unitVars, webhookSecret, emailStatus,
                   emailEvents, hooks, icpSettings, icp, usageCount>>

\* The update returns: an error is answered 500, otherwise the row holds the
\* value sent and the answer is success.
TemplateUpdateReturn(u) ==
    /\ u \in DOMAIN uses
    /\ uses[u].pc = "update"
    /\ \E ok \in BOOLEAN :
         IF ok
         THEN /\ usageCount' = uses[u].read + 1
              /\ uses' = [uses EXCEPT ![u] = UseRespond(@, 200)]
         ELSE /\ usageCount' = usageCount
              /\ uses' = [uses EXCEPT ![u] = UseRespond(@, 500)]
    /\ UNCHANGED <<pipeVars, clientVars, unitVars, webhookSecret, emailStatus,
                   emailEvents, hooks, icpSettings, icp>>

\* The webhook, ICP and template routes before any request.
ServicesIdle ==
    /\ webhookSecret = TRUE
    /\ HooksIdle
    /\ IcpIdle
    /\ TemplatesIdle

(* ------------------------------ the page ------------------------------- *)

\* No pure function is being applied.
UnitIdle ==
    /\ source = "apollo"
    /\ person = <<>>
    /\ mapped = <<>>
    /\ remapped = <<>>
    /\ queryData = <<>>
    /\ apolloUrl = <<>>

\* The page as first rendered, nothing clicked.
ClientIdle ==
    /\ inputMethod = "form"
    /\ form = FormInit
    /\ chat = [ChatInit EXCEPT !.mounted = FALSE]
    /\ now = 0

\* The browser side while only the route handler is looked at.
InitPageIdle ==
    /\ UnitIdle
    /\ ServicesIdle
    /\ inputMethod = "form"
    /\ form = FormInit
    /\ chat = [ChatInit EXCEPT !.mounted = FALSE]
    /\ now = 0

\* GenerateLeadsPage renders LeadGenerationForm or ChatInterface.
InitPage ==
    /\ apifyConfigured = TRUE
    /\ googleConfigured = TRUE
    /\ openaiConfigured = TRUE
    /\ PipelineIdle
    /\ UnitIdle
    /\ ServicesIdle
    /\ inputMethod \in {"form", "chat"}
    /\ form = [FormInit EXCEPT !.mounted = (inputMethod = "form")]
    /\ chat = [ChatInit EXCEPT !.mounted = (inputMethod = "chat")]
    /\ now = 0

NextPage ==
    \/ F_onSubmit
    \/ F_generateLeadsReturn
    \/ F_Tick
    \/ F_PollReturn
    \/ F_Unmount
    \/ C_handleSubmit
    \/ C_sendChatMessageReturn
    \/ C_Tick
    \/ C_PollReturn
    \/ C_stopStatusPolling
    \/ C_Unmount
    \/ ClockTick

SpecPage == InitPage /\ [][NextPage]_vars

(* ---------------- the page showing LeadGenerationForm ------------------ *)

InitForm == InitPage /\ inputMethod = "form"

NextForm ==
    \/ F_onSubmit
    \/ F_generateLeadsReturn
    \/ F_Tick
    \/ F_PollReturn
    \/ F_Unmount

SpecForm == InitForm /\ [][NextForm]_vars

(* ---------- ChatInterface while no status request finds the session ---- *)

\* A status request is answered without an event: the request fails (an HTTP
\* error status rejects the promise), or the body is the not-found result
\* (success false), or it has no data.
C_PollReturnUnsuccessful ==
    \E s \in Sessions, reply \in {"throw", "not_found", "nodata"} :
        C_PollReturnWith(s, reply)

InitChat == InitPage /\ inputMethod = "chat"

\* The user sends messages, never presses Stop, and the page stays mounted.
NextChatNotFound ==
    \/ C_handleSubmit
    \/ C_sendChatMessageReturn
    \/ C_Tick
    \/ C_PollReturnUnsuccessful
    \/ ClockTick

\* A running interval keeps firing and every request sent is answered; when
\* the user sends a message is up to the user.
SpecChatNotFound ==
    /\ InitChat
    /\ [][NextChatNotFound]_vars
    /\ WF_vars(C_Tick)
    /\ WF_vars(C_PollReturnUnsuccessful)

(* ------------------- results.map: raw record to lead ------------------- *)

\* A string is the sequence of its tokens; the empty string is <<>>.
EmptyString == <<>>

Space == " "

\* The keys the two mappings read from a raw record.
ApolloFields ==
    {"firstName", "lastName", "fullName", "email", "jobTitle", "headline",
     "companyName", "companyIndustry", "companySize", "location", "linkedinUrl",
     "profileUrl"}

GoogleFields ==
    {"firstName", "lastName", "fullName", "headline", "position", "company",
     "industry", "location", "url"}

\* The value a key holds in the model when the record has it.
SampleValue(f) ==
    CASE f = "firstName" -> <<"Ada">>
      [] f = "lastName"  -> <<"Lovelace">>
      [] f = "fullName"  -> <<"Ada", Space, "King", Space, "Lovelace">>
      [] OTHER           -> <<f>>

\* Every raw record: any subset of the keys present.
RawRecords(fields) == {[f \in S |-> SampleValue(f)] : S \in SUBSET fields}

\* randomUUID() and new Date().toISOString() differ from call to call.
Uuids == {<<"uuid-1">>, <<"uuid-2">>}
Instants == {<<"2025-01-01T00:00:00.000Z">>, <<"2025-01-01T00:00:01.000Z">>}

\* p.f, where undefined is read as '': both are falsy, so x || d is the same.
Read(p, f) == IF f \in DOMAIN p THEN p[f] ELSE EmptyString

\* x || d for strings
OrStr(x, d) == IF x = EmptyString THEN d ELSE x

RECURSIVE TrimStart(_)
TrimStart(str) ==
    IF str # <<>> /\ Head(str) = Space THEN TrimStart(Tail(str)) ELSE str

RECURSIVE TrimEnd(_)
TrimEnd(str) ==
    IF str # <<>> /\ str[Len(str)] = Space
    THEN TrimEnd(SubSeq(str, 1, Len(str) - 1))
    ELSE str

\* String.prototype.trim
Trim(str) == TrimEnd(TrimStart(str))

\* JoinedName without .trim()
JoinedName_NoTrim(p) ==
    OrStr(Read(p, "firstName"), EmptyString) \o <<Space>>
        \o OrStr(Read(p, "lastName"), EmptyString)

\* `${p.firstName || ''} ${p.lastName || ''}`.trim()
JoinedName(p) ==
    Trim(OrStr(Read(p, "firstName"), EmptyString) \o <<Space>>
           \o OrStr(Read(p, "lastName"), EmptyString))

\* The arrow function of results.map in searchApolloLeads.
MapApolloRecord(p, uuid, t) ==
    [ id              |-> uuid,
      firstName       |-> OrStr(Read(p, "firstName"), EmptyString),
      lastName        |-> OrStr(Read(p, "lastName"), EmptyString),
      fullName        |-> OrStr(Read(p, "fullName"), JoinedName(p)),
      email           |-> OrStr(Read(p, "email"), EmptyString),
      jobTitle        |-> OrStr(Read(p, "jobTitle"),
                                OrStr(Read(p, "headline"), EmptyString)),
      companyName     |-> OrStr(Read(p, "companyName"), EmptyString),
      companyIndustry |-> OrStr(Read(p, "companyIndustry"), EmptyString),
      companySize     |-> OrStr(Read(p, "companySize"), EmptyString),
      location        |-> OrStr(Read(p, "location"), EmptyString),
      linkedin_url    |-> OrStr(Read(p, "linkedinUrl"),
                                OrStr(Read(p, "profileUrl"), EmptyString)),
      createdAt       |-> t,
      email_status    |-> <<"not_sent">> ]

\* The arrow function of results.map in searchGoogleLeads.
MapGoogleRecord(p, uuid, t) ==
    [ id              |-> uuid,
      firstName       |-> OrStr(Read(p, "firstName"), EmptyString),
      lastName        |-> OrStr(Read(p, "lastName"), EmptyString),
      fullName        |-> OrStr(Read(p, "fullName"), JoinedName(p)),
      email           |-> EmptyString,
      jobTitle        |-> OrStr(Read(p, "headline"),
                                OrStr(Read(p, "position"), EmptyString)),
      companyName     |-> OrStr(Read(p, "company"), EmptyString),
      companyIndustry |-> OrStr(Read(p, "industry"), EmptyString),
      companySize     |-> EmptyString,
      location        |-> OrStr(Read(p, "location"), EmptyString),
      linkedin_url    |-> OrStr(Read(p, "url"), EmptyString),
      createdAt       |-> t,
      email_status    |-> <<"not_sent">> ]

\* One raw record of either source, not yet mapped.
InitMapping ==
    /\ apifyConfigured = TRUE
    /\ googleConfigured = TRUE
    /\ openaiConfigured = TRUE
    /\ PipelineIdle
    /\ ClientIdle
    /\ ServicesIdle
    /\ source \in {"apollo", "google_apify"}
    /\ person \in RawRecords(IF source = "apollo" THEN ApolloFields ELSE GoogleFields)
    /\ mapped = <<>>
    /\ remapped = <<>>
    /\ queryData = <<>>
    /\ apolloUrl = <<>>

\* searchApolloLeads maps the record.
ApolloMapRecord ==
    /\ source = "apollo"
    /\ mapped = <<>>
    /\ \E uuid \in Uuids, t \in Instants :
         mapped' = <<MapApolloRecord(person, uuid, t)>>
    /\ UNCHANGED <<svcVars, pipeVars, clientVars, source, person, remapped, queryData, apolloUrl>>

\* searchGoogleLeads maps the record.
GoogleMapRecord ==
    /\ source = "google_apify"
    /\ mapped = <<>>
    /\ \E uuid \in Uuids, t \in Instants :
         mapped' = <<MapGoogleRecord(person, uuid, t)>>
    /\ UNCHANGED <<svcVars, pipeVars, clientVars, source, person, remapped, queryData, apolloUrl>>

\* The mapped lead is given to the same mapping as if it were a raw record.
MapAgain ==
    /\ mapped # <<>>
    /\ remapped = <<>>
    /\ \E uuid \in Uuids, t \in Instants :
         remapped' = <<IF source = "apollo"
                       THEN MapApolloRecord(mapped[1], uuid, t)
                       ELSE MapGoogleRecord(mapped[1], uuid, t)>>
    /\ UNCHANGED <<svcVars, pipeVars, clientVars, source, person, mapped, queryData, apolloUrl>>

NextMapping ==
    \/ ApolloMapRecord
    \/ GoogleMapRecord
    \/ MapAgain

SpecMapping == InitMapping /\ [][NextMapping]_vars

(* -------------------------- generateApolloUrl -------------------------- *)

QueryParams == {"jobTitles", "locations", "industries", "companySizes", "keywords"}

\* What a key of queryData can hold when present: an array of terms (for
\* keywords: the string, '' being <<>>).
QueryValues(pn) ==
    CASE pn = "keywords"     -> {<<>>, <<"saas">>, <<"machine learning">>}
      [] pn = "companySizes" -> {<<>>, <<"1,10">>, <<"11,20", "21,50">>}
      [] OTHER               -> {<<>>, <<"cto">>, <<"vice president", "c+level">>}

AllQueryValues == UNION {QueryValues(pn) : pn \in QueryParams}

\* Every queryData: any subset of the keys present.
Queries ==
    UNION { {q \in [S -> AllQueryValues] : \A pn \in S : q[pn] \in QueryValues(pn)} :
            S \in SUBSET QueryParams }

\* val.replace('+', ' '): the first '+' only.
ReplacePlus(val) ==
    CASE val = "c+level" -> "c level"
      [] OTHER           -> val

\* encodeURIComponent on the values of the model.
EncodeURIComponent(val) ==
    CASE val = "vice president"   -> "vice%20president"
      [] val = "c level"          -> "c%20level"
      [] val = "machine learning" -> "machine%20learning"
      [] val = "1,10"             -> "1%2C10"
      [] val = "11,20"            -> "11%2C20"
      [] val = "21,50"            -> "21%2C50"
      [] val = "51,100"           -> "51%2C100"
      [] val = "101,200"          -> "101%2C200"
      [] OTHER                    -> val

\* One element of queryParts: `${name}=${value}` or `${name}[]=${value}`.
QueryPart(nm, isArray, val) == [name |-> nm, array |-> isArray, value |-> val]

\* addArrayParams(paramName, values)
addArrayParams(paramName, values) ==
    [k \in 1..Len(values) |->
        QueryPart(paramName, TRUE, EncodeURIComponent(ReplacePlus(values[k])))]

\* queryData.<key> && queryData.<key>.length > 0
NonEmptyArray(q, pn) == pn \in DOMAIN q /\ Len(q[pn]) > 0

\* addArrayParams(paramName, queryData.<key>) under that test
ArrayClause(q, pn, paramName) ==
    IF NonEmptyArray(q, pn) THEN addArrayParams(paramName, q[pn]) ELSE <<>>

employeeRanges == <<"1,10", "11,20", "21,50", "51,100", "101,200">>

\* generateApolloUrl without the length test on industries: an empty array
\* gives a clause with no value.
generateApolloUrl_EmptyIndustriesClause(q) ==
    <<QueryPart("sortByField", FALSE, "recommendations_score"),
      QueryPart("sortAscending", FALSE, "false"),
      QueryPart("page", FALSE, "1")>>
    \o ArrayClause(q, "jobTitles", "personTitles")
    \o ArrayClause(q, "locations", "personLocations")
    \o (IF "industries" \in DOMAIN q
        THEN IF Len(q["industries"]) > 0
             THEN addArrayParams("qOrganizationKeywordTags", q["industries"])
             ELSE <<QueryPart("qOrganizationKeywordTags", TRUE, "")>>
        ELSE <<>>)
    \o ArrayClause(q, "companySizes", "organizationNumEmployeesRanges")
    \o <<QueryPart("includedOrganizationKeywordFields", TRUE, "tags"),
         QueryPart("includedOrganizationKeywordFields", TRUE, "name")>>
    \o (IF ~NonEmptyArray(q, "companySizes")
        THEN addArrayParams("organizationNumEmployeesRanges", employeeRanges)
        ELSE <<>>)
    \o (IF "keywords" \in DOMAIN q /\ q["keywords"] # <<>>
        THEN <<QueryPart("qKeywords", FALSE, EncodeURIComponent(q["keywords"][1]))>>
        ELSE <<>>)

\* generateApolloUrl(queryData): the queryParts, in order (the URL is the base
\* URL, '?', and the parts joined by '&').
generateApolloUrl(q) ==
    <<QueryPart("sortByField", FALSE, "recommendations_score"),
      QueryPart("sortAscending", FALSE, "false"),
      QueryPart("page", FALSE, "1")>>
    \o ArrayClause(q, "jobTitles", "personTitles")
    \o ArrayClause(q, "locations", "personLocations")
    \o ArrayClause(q, "industries", "qOrganizationKeywordTags")
    \o ArrayClause(q, "companySizes", "organizationNumEmployeesRanges")
    \o <<QueryPart("includedOrganizationKeywordFields", TRUE, "tags"),
         QueryPart("includedOrganizationKeywordFields", TRUE, "name")>>
    \o (IF ~NonEmptyArray(q, "companySizes")
        THEN addArrayParams("organizationNumEmployeesRanges", employeeRanges)
        ELSE <<>>)
    \o (IF "keywords" \in DOMAIN q /\ q["keywords"] # <<>>
        THEN <<QueryPart("qKeywords", FALSE, EncodeURIComponent(q["keywords"][1]))>>
        ELSE <<>>)

\* One queryData, its URL not yet generated.
InitApolloUrl ==
    /\ apifyConfigured = TRUE
    /\ googleConfigured = TRUE
    /\ openaiConfigured = TRUE
    /\ PipelineIdle
    /\ ClientIdle
    /\ ServicesIdle
    /\ source = "apollo"
    /\ person = <<>>
    /\ mapped = <<>>
    /\ remapped = <<>>
    /\ queryData \in Queries
    /\ apolloUrl = <<>>

\* const apolloUrl = generateApolloUrl(query)
GenerateApolloUrl ==
    /\ apolloUrl = <<>>
    /\ apolloUrl' = generateApolloUrl(queryData)
    /\ UNCHANGED <<svcVars, pipeVars, clientVars, source, person, mapped, remapped, queryData>>

NextApolloUrl == GenerateApolloUrl

SpecApolloUrl == InitApolloUrl /\ [][NextApolloUrl]_vars

(* ------------------ the other routes' behaviours ----------------------- *)

\* Everything but the webhook, ICP and template routes at rest.
InitOthersIdle ==
    /\ apifyConfigured = TRUE
    /\ googleConfigured = TRUE
    /\ openaiConfigured = TRUE
    /\ PipelineIdle
    /\ ClientIdle
    /\ UnitIdle

InitWebhook ==
    /\ InitOthersIdle
    /\ webhookSecret \in BOOLEAN
    /\ HooksIdle
    /\ IcpIdle
    /\ TemplatesIdle

\* Webhook requests and lead updates arrive and are served in any interleaving.
NextWebhook ==
    \/ WebhookPOST
    \/ \E w \in HookIds : HookFindReturn(w)
    \/ \E w \in HookIds : HookInsertReturn(w)
    \/ \E w \in HookIds : HookReadReturn(w)
    \/ \E w \in HookIds : HookUpdateReturn(w)
    \/ LeadsPUT

SpecWebhook == InitWebhook /\ [][NextWebhook]_vars

InitIcp == InitOthersIdle /\ ServicesIdle

NextIcp ==
    \/ IcpPOST
    \/ IcpPUT
    \/ IcpAuthReturn
    \/ IcpSelectReturn
    \/ IcpWriteReturn

SpecIcp == InitIcp /\ [][NextIcp]_vars

InitTemplates == InitOthersIdle /\ ServicesIdle

NextTemplates ==
    \/ TemplateUse
    \/ \E u \in UseIds : TemplateFetchReturn(u)
    \/ \E u \in UseIds : TemplateUpdateReturn(u)

SpecTemplates == InitTemplates /\ [][NextTemplates]_vars

(* ------------------------ the route's behaviours ----------------------- *)

Next ==
    \/ POST_Receive
    \/ POST_BadBody
    \/ ApolloSubmitReturn
    \/ ApolloPoll
    \/ ApolloFetchReturn
    \/ GoogleSearchReturn
    \/ GoogleSubmitReturn
    \/ GooglePoll
    \/ GoogleFetchReturn
    \/ ScoreStep
    \/ SaveReturn

Init == InitPipeline /\ InitPageIdle

Spec == Init /\ [][Next]_vars

\* Every external call returns: the handler, once resumable, is resumed.
FairSpec == Spec /\ WF_vars(Next)



(* ===================== the generate-leads route ======================== *)

JobFaulted == jobStatus \in {"FAILED", "TIMEOUT"}

\* C1 (as stated): whenever the insert into `leads` returns an error or throws,
\* the run does not end with a success outcome.
C1_PersistFailureIsError ==
    insertResult \in {"error", "throw"} => outcome # "success"

C3_OneTerminalOutcomeLast ==
    /\ [](/\ nResponse <= 1
          /\ (nResponse = 1 <=> outcome \in {"success", "error"})
          /\ (pc = "done" <=> outcome # "none"))
    /\ [][outcome # "none" =>
            UNCHANGED <<outcome, nResponse, nSearch, nSubmit, nPoll, nScore,
                        nInsert, insertResult, leads>>]_vars

C3_Witness ==
    /\ pc = "done"
    /\ outcome = "success"
    /\ nPoll > 1
    /\ nScore = 2
    /\ nInsert = 1

ScoringFailed(k) == replies[k].kind \in {"throw", "nonjson"}

\* C4: a lead whose scoring call threw or returned a non-JSON response carries
\* score 0, grade "D" and rationale "Error during scoring"; the run is not
\* ended with an error because of it; and when the scoring loop is over every
\* lead of the batch, those after the failed one included, has been scored.
C4_ScoringIsolation ==
    /\ \A k \in 1..Len(replies) :
         /\ k <= Len(leads)
         /\ leads[k].icp_score # None
         /\ ScoringFailed(k) =>
              /\ leads[k].icp_score = Some(0)
              /\ leads[k].icp_grade = "D"
              /\ leads[k].icpReasoning = "Error during scoring"
              /\ outcome # "error"
    /\ (nScore > 0 /\ pc \in {"save", "done"}) =>
         /\ Len(replies) = Len(leads)
         /\ nScore = Len(leads)

C4_Witness ==
    /\ pc = "done"
    /\ outcome = "success"
    /\ Len(replies) = 2
    /\ replies[1].kind = "throw"
    /\ replies[2].kind = "json"
    /\ leads[2].icp_score = Some(85)

\* C5: when sourcing returns no candidate (a dataset of zero records, or a web
\* search with no item or no profile link), the run ends with a success
\* outcome whose count is 0.
C5_EmptySourcingCompletes ==
    rawCount = 0 =>
        /\ pc = "done"
        /\ outcome = "success"
        /\ httpStatus = 200
        /\ count = 0

C5_Witness ==
    /\ rawCount = 0
    /\ method = "google_apify"
    /\ nSubmit = 0
    /\ outcome = "success"

\* C6: for method apollo, a scrape job that reports FAILED or is not finished
\* within the polling ceiling ends the run with an error outcome, and no
\* scoring call and no insert is made.
C6_SourcingFaultIsError ==
    (method = "apollo" /\ JobFaulted)
        => /\ pc = "done"
           /\ outcome = "error"
           /\ nScore = 0
           /\ nInsert = 0

C6_Witness ==
    /\ method = "apollo"
    /\ jobStatus = "TIMEOUT"
    /\ nPoll = maxAttempts
    /\ outcome = "error"

\* C7: every run that has been received eventually has a terminal outcome.
C7_EventuallyTerminal ==
    [](pc # "recv" => <>(pc = "done" /\ outcome \in {"success", "error"}))

C7_Witness ==
    /\ pc = "done"
    /\ attempts = maxAttempts
    /\ jobStatus = "TIMEOUT"

NoTerms(v) == v \in {"undefined", "emptyarray"}

\* C8 (as stated): a request whose job titles or locations are absent or carry
\* no term is answered with a validation error, and no search, no job
\* submission, no scoring call and no insert is made for it.
C8_MissingTermsRejected ==
    (pc # "recv" /\ (NoTerms(jobTitles) \/ NoTerms(locations)))
        => /\ pc = "done"
           /\ outcome = "error"
           /\ httpStatus = 400
           /\ nSearch = 0 /\ nSubmit = 0 /\ nPoll = 0
           /\ nScore = 0 /\ nInsert = 0

GooglePcs == {"google_search", "google_submit", "google_poll", "google_fetch"}

\* C21: within one run the stages follow one another: a scoring call is issued
\* only after sourcing (for google_apify: the enrichment job and its dataset)
\* has returned; at most one scoring call is outstanding, the call for the
\* next lead being issued only when the one before it has returned; the insert
\* is issued only when every lead has been scored; the response is produced
\* only when the insert, if one was issued, has returned; and the web search
\* and the enrichment job belong to google_apify only, never to apollo.
C21_StagesInSequence ==
    /\ nScore > 0 =>
         /\ rawCount = Len(leads)
         /\ jobStatus = "SUCCEEDED"
         /\ nPoll > 0
    /\ nScore = Len(replies) + (IF pc = "score" THEN 1 ELSE 0)
    /\ pc = "score" => (i = Len(replies) /\ i < Len(leads))
    /\ nInsert <= 1
    /\ nInsert = 1 =>
         /\ pc \in {"save", "done"}
         /\ rawCount = Len(leads)
         /\ openaiConfigured => Len(replies) = Len(leads)
    /\ pc = "save" <=> (nInsert = 1 /\ insertResult = "none")
    /\ outcome # "none" => (nInsert = 1 <=> insertResult # "none")
    /\ outcome = "success" => (Len(leads) > 0 => nInsert = 1)
    /\ pc \in GooglePcs => method = "google_apify"
    /\ nSearch > 0 => method = "google_apify"
    /\ method = "apollo" => (nSearch = 0 /\ nSubmit <= 1)
    /\ (method = "google_apify" /\ nSubmit > 0) => nSearch = 1

C21_Witness ==
    /\ method = "google_apify"
    /\ pc = "done"
    /\ nSubmit = 1
    /\ Len(replies) = 2
    /\ nInsert = 1
    /\ insertResult = "error"
    /\ outcome = "success"

\* C22: the count reported by a success response equals the number of records
\* the sourcing returned, and from the return of sourcing on the batch holds
\* each of those records exactly once, whatever the scoring calls answered.
C22_CountIsRawCount ==
    /\ outcome = "success" => count = rawCount
    /\ (rawCount >= 0 /\ (pc \in {"score", "save"} \/ outcome = "success")) =>
             /\ Len(leads) = rawCount
             /\ \A k \in 1..Len(leads) : leads[k].id = k

C22_Witness ==
    /\ outcome = "success"
    /\ rawCount = MaxLeads
    /\ count = MaxLeads
    /\ Len(replies) = MaxLeads
    /\ replies[1].kind = "json"
    /\ replies[MaxLeads].kind = "nonjson"

Grades == {"A+", "A", "B+", "B", "C+", "C", "D+", "D"}

\* C16 (as stated): every lead that has been given a score has a score in
\* 0..100 and a grade among A+, A, B+, B, C+, C, D+, D.
C16_ScoreAndGradeInRange ==
    \A k \in 1..Len(leads) :
        leads[k].icp_score # None =>
            /\ leads[k].icp_score[1] \in 0..100
            /\ leads[k].icp_grade \in Grades

MissingKey(reply) ==
    /\ reply.kind = "json"
    /\ (reply.score = None \/ reply.grade = Absent \/ reply.reasoning = Absent)

\* C17 (as stated): a lead whose scoring reply was valid JSON without one of
\* the keys score, grade, reasoning carries the complete default failure
\* score: 0, "D", "Error during scoring".
C17_MissingKeyIsDefaultFailure ==
    \A k \in 1..Len(replies) :
        MissingKey(replies[k]) =>
            /\ leads[k].icp_score = Some(DefaultFailureScore.score)
            /\ leads[k].icp_grade = DefaultFailureScore.grade
            /\ leads[k].icpReasoning = DefaultFailureScore.reasoning

PollLoopOver == nPoll > 0 /\ pc \notin {"apollo_poll", "google_poll"}

\* What C18 says of the job's three reports: at most 30 status checks; a job
\* that SUCCEEDED gives its result set and neither job error; FAILED gives the
\* job-failed error; the timeout error is given exactly when 30 checks found
\* the job unfinished; neither error stands for the other.
PollResultsDistinct ==
    /\ nPoll <= 30 /\ attempts <= 30 /\ attempts <= nPoll
    /\ jobStatus = "SUCCEEDED" =>
          /\ PollLoopOver
          /\ responseMessage \notin {"Apify actor run failed", "Apify actor run timeout"}
          /\ rawCount >= 0 => rawCount = Len(leads)
    /\ jobStatus = "FAILED" =>
          /\ pc = "done" /\ outcome = "error"
          /\ responseMessage = "Apify actor run failed"
    /\ jobStatus = "TIMEOUT" =>
          /\ pc = "done" /\ outcome = "error"
          /\ responseMessage = "Apify actor run timeout"
          /\ attempts = 30 /\ nPoll = 30
    /\ responseMessage = "Apify actor run failed" => jobStatus = "FAILED"
    /\ responseMessage = "Apify actor run timeout" => jobStatus = "TIMEOUT"

LeadFields ==
    {"firstName", "lastName", "fullName", "email", "jobTitle", "companyName",
     "companyIndustry", "companySize", "location", "linkedin_url", "email_status"}

\* C15 (as stated): mapping an already mapped record yields the same record
\* (the fresh id and creation time left aside).
C15_NormalizeIdempotent ==
    remapped # <<>> =>
        \A f \in LeadFields : remapped[1][f] = mapped[1][f]

Has(f) == f \in DOMAIN person

Given(f) == IF Has(f) THEN SampleValue(f) ELSE EmptyString

FirstOf(f, g) == IF Has(f) THEN SampleValue(f) ELSE Given(g)

ExpectedFullName ==
    CASE Has("fullName")                    -> SampleValue("fullName")
      [] Has("firstName") /\ Has("lastName") -> <<"Ada", Space, "Lovelace">>
      [] Has("firstName")                   -> <<"Ada">>
      [] Has("lastName")                    -> <<"Lovelace">>
      [] OTHER                              -> EmptyString

\* C20: for a raw record with any subset of its keys, the mapping applies and
\* gives a lead in which every field whose key (and fallback key) is missing
\* is the empty string, every other field is the record's value, and the full
\* name is the record's full name when it has one and otherwise first and
\* last name joined by a space and trimmed.
C20_MappingToleratesMissing ==
    /\ mapped = <<>> => ENABLED NextMapping
    /\ mapped # <<>> =>
         LET l == mapped[1]
         IN  /\ l.firstName = Given("firstName")
             /\ l.lastName = Given("lastName")
             /\ l.location = Given("location")
             /\ l.fullName = ExpectedFullName
             /\ l.email_status = <<"not_sent">>
             /\ source = "apollo" =>
                  /\ l.email = Given("email")
                  /\ l.jobTitle = FirstOf("jobTitle", "headline")
                  /\ l.companyName = Given("companyName")
                  /\ l.companyIndustry = Given("companyIndustry")
                  /\ l.companySize = Given("companySize")
                  /\ l.linkedin_url = FirstOf("linkedinUrl", "profileUrl")
             /\ source = "google_apify" =>
                  /\ l.email = EmptyString
                  /\ l.jobTitle = FirstOf("headline", "position")
                  /\ l.companyName = Given("company")
                  /\ l.companyIndustry = Given("industry")
                  /\ l.companySize = EmptyString
                  /\ l.linkedin_url = Given("url")

C20_Witness ==
    /\ source = "google_apify"
    /\ DOMAIN person = {"lastName", "position"}
    /\ mapped # <<>>
    /\ mapped[1].fullName = <<"Lovelace">>
    /\ mapped[1].firstName = EmptyString

(* ========================== the broker query =========================== *)

\* An optional parameter that is absent or empty.
Blank(pn) == pn \notin DOMAIN queryData \/ queryData[pn] = <<>>

ClauseName(pn) ==
    CASE pn = "industries"   -> "qOrganizationKeywordTags"
      [] pn = "companySizes" -> "organizationNumEmployeesRanges"
      [] pn = "keywords"     -> "qKeywords"

ClausesNamed(nm) == SelectSeq(apolloUrl, LAMBDA part : part.name = nm)

\* C19 (as stated): an optional parameter (industries, company sizes,
\* keywords) that is absent or empty contributes no clause to the query.
C19_BlankParameterNoClause ==
    apolloUrl # <<>> =>
        \A pn \in {"industries", "companySizes", "keywords"} :
            Blank(pn) => ClausesNamed(ClauseName(pn)) = <<>>

\* C19 (amended): absent or empty industries and keywords contribute no
\* clause; absent or empty company sizes contribute the five default
\* employee ranges 1,10 11,20 21,50 51,100 101,200; and no clause of a
\* parameter that is absent or empty has an empty value.
C19_BlankParameterNoClauseOrDefault ==
    apolloUrl # <<>> =>
        /\ Blank("industries") => ClausesNamed(ClauseName("industries")) = <<>>
        /\ Blank("keywords") => ClausesNamed(ClauseName("keywords")) = <<>>
        /\ Blank("companySizes") =>
              ClausesNamed(ClauseName("companySizes")) =
                 << QueryPart("organizationNumEmployeesRanges", TRUE, "1%2C10"),
                    QueryPart("organizationNumEmployeesRanges", TRUE, "11%2C20"),
                    QueryPart("organizationNumEmployeesRanges", TRUE, "21%2C50"),
                    QueryPart("organizationNumEmployeesRanges", TRUE, "51%2C100"),
                    QueryPart("organizationNumEmployeesRanges", TRUE, "101%2C200") >>
        /\ \A pn \in {"industries", "companySizes", "keywords"} :
              Blank(pn) =>
                 \A k \in 1..Len(apolloUrl) :
                    apolloUrl[k].name = ClauseName(pn) => apolloUrl[k].value # ""

C19_Witness ==
    /\ apolloUrl # <<>>
    /\ DOMAIN queryData = {"jobTitles", "locations", "industries"}
    /\ queryData["industries"] = <<>>
    /\ queryData["jobTitles"] = <<"vice president", "c+level">>
    /\ Len(apolloUrl) = 12

(* ========================= the polling clients ========================= *)

IsPrefix(a, b) ==
    /\ Len(a) <= Len(b)
    /\ \A k \in 1..Len(a) : a[k] = b[k]

\* C10: within one session of a polling client (from the step that starts it
\* and empties the list, onSubmit or startStatusPolling, to the next such
\* step) the status list only grows by appending: the list before any step
\* is a prefix of the list after it.
C10_StatusListOnlyAppends ==
    [][/\ form'.nSubmit = form.nSubmit
            => IsPrefix(form.statusUpdates, form'.statusUpdates)
       /\ chat'.nSessions = chat.nSessions
            => IsPrefix(chat.statusUpdates, chat'.statusUpdates)]_vars

C10_Witness ==
    /\ form.currentSessionId # NoSession
    /\ form.statusUpdates = <<FormMessage("lead_scored"), FormMessage("started")>>
    /\ form.retryCount[form.currentSessionId] > 0

\* Answers that carry an event of the session.
FoundReplies == StatusReplies \ {"throw", "nodata", "not_found"}

PollingState(f) ==
    <<f.isPollingRef, f.pollingIntervalRef, f.timers, f.isLoading, f.currentSessionId>>

\* C11: in LeadGenerationForm every handled not-found answer adds one to the
\* session's count of consecutive not-found answers; while the count is below
\* 10 the polling goes on untouched (flag, timer, loading, session id); with
\* the 10th the polling is stopped, the timer cleared and loading ended; and
\* every answer that carries an event resets the count to 0.
C11_NotFoundRetriedUpToTen ==
    [][\A s \in Sessions :
         /\ F_PollReturnWith(s, "not_found") =>
              /\ form'.retryCount[s] = form.retryCount[s] + 1
              /\ IF form'.retryCount[s] < 10
                 THEN PollingState(form') = PollingState(form)
                 ELSE /\ ~form'.isPollingRef
                      /\ form'.pollingIntervalRef = NoTimer
                      /\ form'.timers = {}
                      /\ form'.mounted => (~form'.isLoading
                                            /\ form'.currentSessionId = NoSession)
         /\ \A r \in FoundReplies :
              F_PollReturnWith(s, r) => form'.retryCount[s] = 0]_vars

C11_Witness ==
    /\ form.mounted
    /\ form.nSessions = 1
    /\ form.retryCount[1] = 10
    /\ form.statusUpdates = <<FormMessage("started")>>
    /\ ~form.isPollingRef
    /\ form.timers = {}
    /\ ~form.isLoading

\* C12 (as stated): in ChatInterface, when no status request of a session
\* finds it, the polling that was started ends by itself: the interval the
\* component holds does not run for ever.
C12_ChatNotFoundPollingStops ==
    (chat.statusPollingRef \in chat.timers) ~> (chat.statusPollingRef \notin chat.timers)

\* C13: handling a not-found answer in LeadGenerationForm leaves the status
\* list, the current phase, the ETA and the generation result as they were.
C13_NotFoundIsNoStatus ==
    [][\A s \in Sessions :
         F_PollReturnWith(s, "not_found") =>
            /\ form'.statusUpdates = form.statusUpdates
            /\ form'.currentPhase = form.currentPhase
            /\ form'.estimatedTimeRemaining = form.estimatedTimeRemaining
            /\ form'.generationResult = form.generationResult]_vars

C13_Witness ==
    /\ form.mounted
    /\ form.retryCount[1] = 2
    /\ form.isPollingRef
    /\ form.statusUpdates = <<FormMessage("started")>>
    /\ form.currentPhase = "Starting lead generation..."
    /\ form.estimatedTimeRemaining = "120"
    /\ form.generationResult = "null"

NonTerminalEvents == FoundReplies \ TerminalEvents

Latest(list) == list[Len(list)]

\* C14 (as stated): in both polling clients, when a poll returns the
\* non-terminal event whose entry is the latest one displayed (the event the
\* poll before it returned), handling it adds no entry to the status list.
C14_PollingIdempotent ==
    [][\A s \in Sessions, ev \in NonTerminalEvents :
         /\ ( /\ F_PollReturnWith(s, ev)
              /\ Len(form.statusUpdates) > 0
              /\ Latest(form.statusUpdates) = FormMessage(ev) )
              => form'.statusUpdates = form.statusUpdates
         /\ ( /\ C_PollReturnWith(s, ev)
              /\ Len(chat.statusUpdates) > 0
              /\ Latest(chat.statusUpdates)[2] = ChatMessage(ev) )
              => chat'.statusUpdates = chat.statusUpdates]_vars

(* --------------- LeadGenerationForm: sessions and loading --------------- *)

\* The React state of the component (what a render shows).
ClientState(f) ==
    <<f.isLoading, f.generationResult, f.statusUpdates, f.currentSessionId,
      f.currentPhase, f.estimatedTimeRemaining>>

Shown(f, message) ==
    \E k \in 1..Len(f.statusUpdates) : f.statusUpdates[k] = message

\* The terminal event of session s has been handled: s is the only session
\* started so far, and the state carries what only the generation_completed
\* case or the error case of pollStatus writes.
TerminalHandled(s) ==
    /\ s = 1
    /\ form.nSubmit = 1
    /\ form.nSessions = 1
    /\ \/ form.generationResult = "success"
       \/ Shown(form, FormMessage("error"))

\* C23 (as stated): in LeadGenerationForm, once the terminal event of a
\* session has been handled, no later status response of that session changes
\* the state of the component, and the generation_completed case (whose last
\* statement calls onLeadsGenerated) does not run again for it.
C23_TerminalActedOnOnce ==
    [][\A s \in Sessions, r \in StatusReplies :
         (TerminalHandled(s) /\ F_PollReturnWith(s, r)) =>
            /\ ClientState(form') = ClientState(form)
            /\ r # "generation_completed"]_vars

\* C24 (as stated): in LeadGenerationForm, handling a status response of a
\* session other than the current one leaves the status list, the generation
\* result and the running polling timer of the current session as they were.
C24_StaleResponseIgnored ==
    [][\A s \in Sessions, r \in StatusReplies :
         ( /\ F_PollReturnWith(s, r)
           /\ form.currentSessionId # NoSession
           /\ form.currentSessionId # s ) =>
            /\ form'.statusUpdates = form.statusUpdates
            /\ form'.generationResult = form.generationResult
            /\ form'.timers = form.timers
            /\ form'.pollingIntervalRef = form.pollingIntervalRef]_vars

\* C25 (as stated): in LeadGenerationForm, whenever no onSubmit call is
\* pending and isLoading is true, the polling timer of the current session is
\* running.
C25_LoadingHasTimer ==
    (form.mounted /\ form.submitting = 0 /\ form.isLoading) =>
        /\ form.currentSessionId # NoSession
        /\ form.pollingIntervalRef = form.currentSessionId
        /\ form.currentSessionId \in form.timers

(* ---------------------- ChatInterface: the timers ----------------------- *)

\* C26 (as stated): in ChatInterface at most one status-polling interval is
\* running at any time, and a running interval is the one statusPollingRef
\* holds.
C26_ChatOneTimer ==
    /\ Cardinality(chat.timers) <= 1
    /\ chat.timers \subseteq {chat.statusPollingRef}

(* ------------------- webhook, ICP and template routes ------------------- *)

\* C27 (as stated): when a webhook secret is configured, a webhook request
\* whose signature header is absent or does not verify is answered 401 before
\* any handler runs, and writes no row of email_events.
C27_UnsignedWebhookRejected ==
    webhookSecret =>
        \A w \in DOMAIN hooks :
            ~verifyWebhookSignature(hooks[w].signature) =>
                /\ hooks[w].pc = "done"
                /\ hooks[w].status = 401
                /\ \A row \in emailEvents : row[1] # w

EnabledWeightsSumTo100(row) == TotalWeight(row.scoringCriteria) = 100

\* C28 (as stated): the row of icp_settings, whenever one has been written,
\* has enabled scoring-criteria weights that sum to 100; and a POST whose
\* scoringCriteria have enabled weights of another sum is answered 400 without
\* a write being issued.
C28_WrittenWeightsSumTo100 ==
    /\ icpSettings # <<>> => EnabledWeightsSumTo100(icpSettings[1])
    /\ ( /\ icp.verb = "POST"
         /\ icp.scoringCriteria # <<>>
         /\ TotalWeight(icp.scoringCriteria[1]) # 100 )
         => (icp.pc = "done" /\ icp.status \in {400, 500})

\* C29 (as stated): in every interleaving of webhook handlers and lead
\* updates, no step of an 'opened' or 'clicked' webhook handler changes an
\* email_status of 'replied'.
C29_RepliedNotOverwritten ==
    [][\A w \in HookIds :
         (HookUpdateReturn(w) /\ hooks[w].type \in {"email.opened", "email.clicked"})
            => (emailStatus = "replied" => emailStatus' = "replied")]_vars

\* The 'use' requests answered with success.
SuccessfulUses == {u \in DOMAIN uses : uses[u].status = 200}

\* C30 (as stated): when no 'use' request is being served, the stored usage
\* count is the number of 'use' requests that were answered with success
\* (the count was 0 before the first).
C30_UsageCountsEveryUse ==
    (\A u \in DOMAIN uses : uses[u].pc = "done")
        => usageCount = Cardinality(SuccessfulUses)

====
